---- MODULE Spec2Model ----
(***************************************************************************)
(* everust: eval(code) writes a generated program into a fresh temporary   *)
(* directory, builds it with rustc, runs the executable and maps what      *)
(* happened onto Result<String, EvalError> (src/src/lib.rs).               *)
(*                                                                         *)
(* The model runs the calls of Calls concurrently over one shared          *)
(* filesystem. Each call is a sequential process whose position is pc[p]:  *)
(*   temp_dir -> create -> write -> sync -> spawn_rustc -> wait_rustc      *)
(*            -> spawn_prog -> wait_prog -> drop -> done                   *)
(* output() spawns a child process and blocks until the child has exited;  *)
(* a child that hangs never lets it return.                                *)
(*                                                                         *)
(* Bytes are numbers, text is a sequence of characters (one-character      *)
(* strings, "U+FFFD" standing for the replacement character).              *)
(***************************************************************************)
EXTENDS Naturals, Sequences, FiniteSets, TLC

VARIABLES pc, code, temp, child, out, ret, hist, fs, self, shown

vars == <<pc, code, temp, child, out, ret, hist, fs, self, shown>>
evalVars == <<pc, code, temp, child, out, ret, hist, fs>>
fmtVars == <<self, shown>>

(***************************************************************************)
(* Bounds of the model.                                                    *)
(***************************************************************************)
\* longest byte stream a child process writes to stdout or to stderr
MaxLen == 1
\* longest diagnostic text carried by an error value that is formatted
MaxMsgLen == 3

\* the concurrent calls of eval made by the caller
Calls == {"c1", "c2"}
\* the snippets passed to eval (tests/basic.rs)
Codes == {"2 + 2", "\"blah\" + 4"}
\* the names TempDir::new can draw for the workspace directory
DirNames == {"tmpA", "tmpB"}
\* the system errors an I/O operation can fail with
IoErrors == {"NotFound", "PermissionDenied"}
\* a valid ASCII byte, and a byte that is never valid UTF-8
Bytes == {97, 255}
ByteStrings == UNION {[1..n -> Bytes] : n \in 0..MaxLen}
Chars == {"a", "\n", "U+FFFD"}
Texts == UNION {[1..n -> Chars] : n \in 0..MaxMsgLen}

None == [tag |-> "None"]

(***************************************************************************)
(* The result and error model.                                             *)
(***************************************************************************)
Ok(s) == [tag |-> "Ok", text |-> s]
BuildFailed(s) == [tag |-> "BuildFailed", text |-> s]
ProgExitedWithErr(s) == [tag |-> "ProgExitedWithErr", text |-> s]
\* OtherError::<kind>(e), not yet wrapped
OtherError(kind, e) == [kind |-> kind, io |-> e]
\* From<OtherError> for EvalError: EvalError::OtherErr(OtherFailure(e))
FromOtherError(e) == [tag |-> "OtherErr", failure |-> e]

\* what the map_err of each fallible step, followed by `?`, returns
TempDirErr(e) == FromOtherError(OtherError("FailedToCreateTempDir", e))
WriteSrcErrSwapped(e) == FromOtherError(OtherError("FailedToCreateTempDir", e))
WriteSrcErr(e) == FromOtherError(OtherError("FailedToWriteSrcFile", e))
SpawnRustcErrAsBuild(e) == BuildFailed(<< >>)
SpawnRustcErr(e) == FromOtherError(OtherError("FailedToSpawnRustc", e))
SpawnProgErr(e) == FromOtherError(OtherError("FailedToSpawnProg", e))

\* String::from_utf8_lossy over the model's bytes: a valid byte decodes to its
\* character, an invalid one to the replacement character
DecodeByte(b) == IF b = 97 THEN "a" ELSE "U+FFFD"
FromUtf8Lossy(bytes) == [i \in 1..Len(bytes) |-> DecodeByte(bytes[i])]

\* the three pieces write! sends to the file, in order: the literal before
\* the argument, the argument, the literal after it
Template(c) ==
    << "\nfn main() {\n    let expr = {", c,
       "};\n    print!(\"{:?}\", expr);\n}\n    " >>

\* `if !out.status.success() { return Err(BuildFailed(stderr)) }`; None when
\* the build succeeded and eval goes on
BuildResultNoCheck(o) == None
BuildResult(o) ==
    IF o.status # "success"
    THEN BuildFailed(FromUtf8Lossy(o.stderr))
    ELSE None

\* the value of the final if/else of eval
RunResultStderrAsOk(o) ==
    IF o.status = "success"
    THEN Ok(FromUtf8Lossy(o.stderr))
    ELSE ProgExitedWithErr(FromUtf8Lossy(o.stderr))
RunResultStdoutAsErr(o) ==
    IF o.status = "success"
    THEN Ok(FromUtf8Lossy(o.stdout))
    ELSE ProgExitedWithErr(FromUtf8Lossy(o.stdout))
RunResult(o) ==
    IF o.status = "success"
    THEN Ok(FromUtf8Lossy(o.stdout))
    ELSE ProgExitedWithErr(FromUtf8Lossy(o.stderr))

(***************************************************************************)
(* The filesystem: for each directory name whether it exists, which call   *)
(* created it, and the two files eval puts in it.                          *)
(***************************************************************************)
NoDir == [exists |-> FALSE, owner |-> "nobody", src |-> None, exe |-> None]
EmptyDir(p) == [exists |-> TRUE, owner |-> p, src |-> None, exe |-> None]

\* the names TempDir::new may use: it retries while the name exists
FreshDirsAnyName(fsys) == DirNames
FreshDirs(fsys) == {d \in DirNames : ~fsys[d].exists}

MkDir(fsys, d, p) ==
    IF fsys[d].exists THEN fsys ELSE [fsys EXCEPT ![d] = EmptyDir(p)]

\* dropping the TempDir removes the directory and what is in it
RemoveDirAllLeak(fsys, d) == fsys
RemoveDirAll(fsys, d) == [fsys EXCEPT ![d] = NoDir]

\* std::process::Output, before anything was captured
NoOut == [status |-> "none", stdout |-> << >>, stderr |-> << >>]
NoChild == [state |-> "none", exe |-> "none", hangs |-> FALSE, input |-> None]
\* a child that was just spawned; input is what it was started on (for rustc
\* the directory of its two paths, for the program the executable loaded),
\* and, once rustc has exited, the source file it read
Running(exe, hangs, input) ==
    [state |-> "running", exe |-> exe, hangs |-> hangs, input |-> input]

Event(op, res) == [op |-> op, res |-> res]
Log(p, op, res) == [hist EXCEPT ![p] = Append(@, Event(op, res))]

Init ==
    /\ pc = [p \in Calls |-> "temp_dir"]
    /\ code \in [Calls -> Codes]
    /\ temp = [p \in Calls |-> "unset"]
    /\ child = [p \in Calls |-> NoChild]
    /\ out = [p \in Calls |-> NoOut]
    /\ ret = [p \in Calls |-> None]
    /\ hist = [p \in Calls |-> << >>]
    /\ fs = [d \in DirNames |-> NoDir]
    /\ self = None
    /\ shown = None

(***************************************************************************)
(* The steps of eval, for the call p.                                      *)
(***************************************************************************)
\* an early return with an error: the value is set, the locals are dropped next
Fail(p, op, e, err) ==
    /\ ret' = [ret EXCEPT ![p] = err]
    /\ hist' = Log(p, op, e)
    /\ pc' = [pc EXCEPT ![p] = "drop"]

\* let temp = TempDir::new("").map_err(FailedToCreateTempDir)?
TempDirNew(p) ==
    /\ pc[p] = "temp_dir"
    /\ \/ \E d \in FreshDirs(fs) :
            /\ fs' = MkDir(fs, d, p)
            /\ temp' = [temp EXCEPT ![p] = d]
            /\ hist' = Log(p, "TempDir::new", "ok")
            /\ pc' = [pc EXCEPT ![p] = "create"]
            /\ UNCHANGED ret
       \/ \E e \in IoErrors :
            \* no TempDir exists, so there is nothing to drop
            /\ ret' = [ret EXCEPT ![p] = TempDirErr(e)]
            /\ hist' = Log(p, "TempDir::new", e)
            /\ pc' = [pc EXCEPT ![p] = "done"]
            /\ UNCHANGED <<fs, temp>>
    /\ UNCHANGED <<code, child, out, self, shown>>

\* write_source_file: let mut f = File::create(path)?
FileCreate(p) ==
    /\ pc[p] = "create"
    /\ \/ /\ fs[temp[p]].exists
          /\ fs' = [fs EXCEPT ![temp[p]].src =
                        [text |-> << >>, synced |-> FALSE, by |-> p]]
          /\ hist' = Log(p, "File::create", "ok")
          /\ pc' = [pc EXCEPT ![p] = "write"]
          /\ UNCHANGED ret
       \/ \E e \in IoErrors :
            /\ Fail(p, "File::create", e, WriteSrcErr(e))
            /\ UNCHANGED fs
    /\ UNCHANGED <<code, temp, child, out, self, shown>>

\* where write_source_file goes once write! has succeeded
AfterWriteNoSync == "spawn_rustc"
AfterWrite == "sync"

\* write_source_file: write!(&mut f, <template>, code)?
\* a failed write leaves the pieces that were written before it
WriteFmt(p) ==
    /\ pc[p] = "write"
    /\ fs[temp[p]].src # None
    /\ \/ /\ fs' = [fs EXCEPT ![temp[p]].src.text = Template(code[p])]
          /\ hist' = Log(p, "write!", "ok")
          /\ pc' = [pc EXCEPT ![p] = AfterWrite]
          /\ UNCHANGED ret
       \/ \E e \in IoErrors, k \in 0..(Len(Template(code[p])) - 1) :
            /\ fs' = [fs EXCEPT ![temp[p]].src.text =
                          SubSeq(Template(code[p]), 1, k)]
            /\ Fail(p, "write!", e, WriteSrcErr(e))
    /\ UNCHANGED <<code, temp, child, out, self, shown>>

\* write_source_file: f.sync_all()
SyncAll(p) ==
    /\ pc[p] = "sync"
    /\ fs[temp[p]].src # None
    /\ \/ /\ fs' = [fs EXCEPT ![temp[p]].src.synced = TRUE]
          /\ hist' = Log(p, "sync_all", "ok")
          /\ pc' = [pc EXCEPT ![p] = "spawn_rustc"]
          /\ UNCHANGED ret
       \/ \E e \in IoErrors :
            /\ Fail(p, "sync_all", e, WriteSrcErr(e))
            /\ UNCHANGED fs
    /\ UNCHANGED <<code, temp, child, out, self, shown>>

\* Command::new("rustc").arg("-o").arg(&out_path).arg(&code_path), spawned
\* by output(); the child is started on the directory holding both paths
SpawnRustc(p) ==
    /\ pc[p] = "spawn_rustc"
    /\ \/ \E h \in BOOLEAN :
            /\ child' = [child EXCEPT ![p] = Running("rustc", h, temp[p])]
            /\ hist' = Log(p, "rustc.spawn", "ok")
            /\ pc' = [pc EXCEPT ![p] = "wait_rustc"]
            /\ UNCHANGED ret
       \/ \E e \in IoErrors :
            /\ Fail(p, "rustc.spawn", e, SpawnRustcErr(e))
            /\ UNCHANGED child
    /\ UNCHANGED <<code, temp, out, fs, self, shown>>

\* output() returns only once the child has exited: a hanging child blocks it
MayReturnOrTimedOut(c) == c.state = "running"
MayReturn(c) == c.state = "running" /\ ~c.hangs

\* output() of rustc returns: the compiler has read the source file and either
\* written the executable and exited with success, or exited with failure,
\* having written anything to stderr in both cases; then
\* if !out.status.success() { return BuildFailed }
WaitRustc(p) ==
    /\ pc[p] = "wait_rustc"
    /\ child[p].exe = "rustc"
    /\ MayReturn(child[p])
    /\ LET d == child[p].input
           src == fs[d].src
       IN \E st \in {"success", "failure"}, err \in ByteStrings :
            LET o == [status |-> st, stdout |-> << >>, stderr |-> err]
                r == BuildResult(o)
            IN /\ st = "success" => (fs[d].exists /\ src # None)
               /\ fs' = IF st = "success"
                        THEN [fs EXCEPT ![d].exe =
                                 [from |-> src.text, by |-> src.by]]
                        ELSE fs
               /\ child' = [child EXCEPT ![p] =
                               [@ EXCEPT !.state = "exited", !.input = src]]
               /\ out' = [out EXCEPT ![p] = o]
               /\ hist' = Log(p, "rustc.wait", st)
               /\ IF r # None
                  THEN /\ ret' = [ret EXCEPT ![p] = r]
                       /\ pc' = [pc EXCEPT ![p] = "drop"]
                  ELSE /\ pc' = [pc EXCEPT ![p] = "spawn_prog"]
                       /\ UNCHANGED ret
    /\ UNCHANGED <<code, temp, self, shown>>

\* Command::new(&out_path), spawned by output(): the executable at out_path
\* is loaded; spawning fails when there is none, and may fail otherwise
SpawnProg(p) ==
    /\ pc[p] = "spawn_prog"
    /\ \/ \E h \in BOOLEAN :
            /\ fs[temp[p]].exists
            /\ fs[temp[p]].exe # None
            /\ child' = [child EXCEPT ![p] =
                            Running("main", h, fs[temp[p]].exe)]
            /\ hist' = Log(p, "prog.spawn", "ok")
            /\ pc' = [pc EXCEPT ![p] = "wait_prog"]
            /\ UNCHANGED ret
       \/ \E e \in IoErrors :
            /\ Fail(p, "prog.spawn", e, SpawnProgErr(e))
            /\ UNCHANGED child
    /\ UNCHANGED <<code, temp, out, fs, self, shown>>

\* output() of the program returns: the program has exited with either
\* status, having written anything to stdout and to stderr; then the final
\* if/else of eval
WaitProg(p) ==
    /\ pc[p] = "wait_prog"
    /\ child[p].exe = "main"
    /\ MayReturn(child[p])
    /\ \E st \in {"success", "failure"}, so \in ByteStrings, se \in ByteStrings :
         LET o == [status |-> st, stdout |-> so, stderr |-> se]
         IN /\ out' = [out EXCEPT ![p] = o]
            /\ child' = [child EXCEPT ![p].state = "exited"]
            /\ hist' = Log(p, "prog.wait", st)
            /\ ret' = [ret EXCEPT ![p] = RunResult(o)]
            /\ pc' = [pc EXCEPT ![p] = "drop"]
    /\ UNCHANGED <<code, temp, fs, self, shown>>

\* eval returns: its locals go out of scope, and dropping temp removes the
\* workspace directory
DropTemp(p) ==
    /\ pc[p] = "drop"
    /\ fs' = RemoveDirAll(fs, temp[p])
    /\ temp' = [temp EXCEPT ![p] = "unset"]
    /\ out' = [out EXCEPT ![p] = NoOut]
    /\ child' = [child EXCEPT ![p] = NoChild]
    /\ pc' = [pc EXCEPT ![p] = "done"]
    /\ UNCHANGED <<code, ret, hist, self, shown>>

\* one step of the call p
Step(p) ==
    \/ TempDirNew(p)
    \/ FileCreate(p)
    \/ WriteFmt(p)
    \/ SyncAll(p)
    \/ SpawnRustc(p)
    \/ WaitRustc(p)
    \/ SpawnProg(p)
    \/ WaitProg(p)
    \/ DropTemp(p)

Next == \E p \in Calls : Step(p)

Spec == Init /\ [][Next]_vars

\* Each call runs on a thread that keeps being scheduled, and a child that
\* does not hang exits: every enabled step is eventually taken.
\* The two calls are given the two snippets, one each.
InitLive ==
    /\ Init
    /\ code["c1"] = "2 + 2"
    /\ code["c2"] = "\"blah\" + 4"
SpecLive == InitLive /\ [][Next]_vars /\ \A p \in Calls : WF_vars(Step(p))

(***************************************************************************)
(* The Error and Display implementations, as functions of the error value. *)
(* Text is a sequence of characters.                                       *)
(***************************************************************************)
StrBuildFailed == <<"B","u","i","l","d"," ","f","a","i","l","e","d">>
StrOtherError == <<"O","t","h","e","r"," ","e","r","r","o","r">>
StrProgExited ==
    <<"P","r","o","g","r","a","m"," ","e","x","i","t","e","d"," ",
      "w","i","t","h"," ","e","r","r","o","r">>

\* Error::description for EvalError
EvalErrorDescription(e) ==
    CASE e.tag = "BuildFailed" -> StrBuildFailed
      [] e.tag = "OtherErr" -> StrOtherError
      [] e.tag = "ProgExitedWithErr" -> StrProgExited

\* Error::cause for EvalError: Some(&e.0) for OtherErr, None otherwise
EvalErrorCauseNone(e) == None
EvalErrorCause(e) ==
    IF e.tag = "OtherErr" THEN e.failure ELSE None

\* Error::cause for OtherError: the io::Error of every variant
OtherErrorCause(o) == o.io

\* Display for EvalError
EvalErrorFmtNoText(e) == EvalErrorDescription(e)
EvalErrorFmt(e) ==
    IF e.tag \in {"BuildFailed", "ProgExitedWithErr"}
    THEN EvalErrorDescription(e) \o <<"\n">> \o e.text
    ELSE EvalErrorDescription(e)

\* the errors walked from an EvalError by following cause(), outermost first
CauseChain(e) ==
    LET c == EvalErrorCause(e)
    IN IF c = None THEN << >> ELSE <<c, OtherErrorCause(c)>>

OtherErrorKinds ==
    {"FailedToCreateTempDir", "FailedToSpawnProg", "FailedToSpawnRustc",
     "FailedToWriteSrcFile"}

\* every value of EvalError with a diagnostic text of at most MaxMsgLen
EvalErrors ==
    {BuildFailed(s) : s \in Texts} \cup {ProgExitedWithErr(s) : s \in Texts}
    \cup {FromOtherError(OtherError(k, e)) : k \in OtherErrorKinds, e \in IoErrors}

\* an error value held by a caller, with no call of eval in progress
InitFmt ==
    /\ pc = [p \in Calls |-> "done"]
    /\ code = [p \in Calls |-> "2 + 2"]
    /\ temp = [p \in Calls |-> "unset"]
    /\ child = [p \in Calls |-> NoChild]
    /\ out = [p \in Calls |-> NoOut]
    /\ ret = [p \in Calls |-> None]
    /\ hist = [p \in Calls |-> << >>]
    /\ fs = [d \in DirNames |-> NoDir]
    /\ self \in EvalErrors
    /\ shown = None

\* format!("{}", self)
Display ==
    /\ shown = None
    /\ shown' = [op |-> "fmt", value |-> EvalErrorFmt(self)]
    /\ UNCHANGED <<evalVars, self>>

\* self.description()
Description ==
    /\ shown = None
    /\ shown' = [op |-> "description", value |-> EvalErrorDescription(self)]
    /\ UNCHANGED <<evalVars, self>>

\* self.cause(), followed to the end
Cause ==
    /\ shown = None
    /\ shown' = [op |-> "cause", value |-> CauseChain(self)]
    /\ UNCHANGED <<evalVars, self>>

NextFmt == Display \/ Description \/ Cause

SpecFmt == InitFmt /\ [][NextFmt]_vars

(***************************************************************************)
(* Properties.                                                             *)
(***************************************************************************)
HasEvent(p, op, res) ==
    \E i \in 1..Len(hist[p]) : hist[p][i] = Event(op, res)
Attempted(p, op) ==
    \E i \in 1..Len(hist[p]) : hist[p][i].op = op
LastEvent(p) == hist[p][Len(hist[p])]
\* eval has computed its return value (its locals are still alive at "drop")
Returning(p) == pc[p] = "drop"
Returned(p) == pc[p] = "done"

\* C1: when rustc exited with success and the program exited with success,
\* eval returns Ok(text) with text the lossy decoding of exactly the bytes the
\* program wrote to stdout, whatever was written to stderr.
C1_SuccessReturnsStdout ==
    \A p \in Calls :
        (HasEvent(p, "rustc.wait", "success") /\ HasEvent(p, "prog.wait", "success"))
        => /\ pc[p] \in {"drop", "done"}
           /\ ret[p].tag = "Ok"
           /\ Returning(p) => ret[p].text = FromUtf8Lossy(out[p].stdout)

\* a successful run whose program wrote an invalid byte to stdout and
\* something else to stderr
C1_Witness ==
    \E p \in Calls :
        /\ Returning(p)
        /\ HasEvent(p, "prog.wait", "success")
        /\ out[p].stdout = <<255>>
        /\ out[p].stderr = <<97>>
        /\ ret[p] = Ok(<<"U+FFFD">>)

\* C2: when rustc was spawned and exited with failure, eval returns
\* Err(BuildFailed(s)) with s the lossy decoding of exactly rustc's stderr,
\* and the built program is never spawned.
C2_BuildFailureReturnsStderr ==
    \A p \in Calls :
        HasEvent(p, "rustc.wait", "failure")
        => /\ pc[p] \in {"drop", "done"}
           /\ ret[p].tag = "BuildFailed"
           /\ Returning(p) => ret[p].text = FromUtf8Lossy(out[p].stderr)
           /\ ~Attempted(p, "prog.spawn")
           /\ child[p].exe # "main"

C2_Witness ==
    \E p \in Calls :
        /\ Returning(p)
        /\ HasEvent(p, "rustc.wait", "failure")
        /\ out[p].stderr = <<255>>
        /\ ret[p] = BuildFailed(<<"U+FFFD">>)

\* C3: when the build succeeded and the program exited with failure, eval
\* returns Err(ProgExitedWithErr(s)) with s the lossy decoding of exactly the
\* program's stderr; never Ok, never BuildFailed, and stdout is not in it.
C3_RunFailureReturnsStderr ==
    \A p \in Calls :
        HasEvent(p, "prog.wait", "failure")
        => /\ HasEvent(p, "rustc.wait", "success")
           /\ pc[p] \in {"drop", "done"}
           /\ ret[p].tag = "ProgExitedWithErr"
           /\ Returning(p) => ret[p].text = FromUtf8Lossy(out[p].stderr)

C3_Witness ==
    \E p \in Calls :
        /\ Returning(p)
        /\ HasEvent(p, "prog.wait", "failure")
        /\ out[p].stdout = <<97>>
        /\ out[p].stderr = <<255>>
        /\ ret[p] = ProgExitedWithErr(<<"U+FFFD">>)

\* the steps of eval in the order of the source
StageOrder ==
    <<"TempDir::new", "File::create", "write!", "sync_all",
      "rustc.spawn", "rustc.wait", "prog.spawn", "prog.wait">>
StageOk(ev) == ev.res \in {"ok", "success"}

\* C4: the stages run in the order of the source, each at most once and only
\* after every earlier one succeeded; rustc runs only on a source file that
\* was created, fully written and flushed; the program runs only after rustc
\* exited with success.
C4_StagesInOrder ==
    \A p \in Calls :
        /\ Len(hist[p]) <= Len(StageOrder)
        /\ \A i \in 1..Len(hist[p]) :
              /\ hist[p][i].op = StageOrder[i]
              /\ i < Len(hist[p]) => StageOk(hist[p][i])
        /\ (child[p].exe = "rustc" /\ child[p].state = "running")
              => fs[temp[p]].src =
                    [text |-> Template(code[p]), synced |-> TRUE, by |-> p]
        /\ child[p].exe = "main" => HasEvent(p, "rustc.wait", "success")

\* a call that went through every stage, and one stopped by a failed write
C4_Witness ==
    \E p, q \in Calls :
        /\ Len(hist[p]) = Len(StageOrder)
        /\ Len(hist[q]) = 3
        /\ ~StageOk(LastEvent(q))
        /\ Returned(q)

\* C5: once eval has returned, on any path, the workspace directory the call
\* created does not exist, nor the source file or executable in it.
C5_WorkspaceRemoved ==
    \A p \in Calls :
        Returned(p) => \A d \in DirNames : ~(fs[d].exists /\ fs[d].owner = p)

\* a call that built an executable and has returned
C5_Witness ==
    \E p \in Calls :
        /\ Returned(p)
        /\ HasEvent(p, "rustc.wait", "success")
        /\ ret[p].tag = "Ok"

\* the terminal state of the pipeline's state machine that a value stands for
Outcome(r) ==
    CASE r.tag = "Ok" -> "SUCCESS"
      [] r.tag = "BuildFailed" -> "BUILD_FAILURE"
      [] r.tag = "ProgExitedWithErr" -> "RUN_FAILURE"
      [] r.tag = "OtherErr" /\ r.failure.kind = "FailedToWriteSrcFile"
            -> "FILE_IO_FAILURE"
      [] r.tag = "OtherErr" /\ r.failure.kind = "FailedToSpawnRustc"
            -> "BUILD_SPAWN_FAILURE"
      [] r.tag = "OtherErr" /\ r.failure.kind = "FailedToSpawnProg"
            -> "RUN_SPAWN_FAILURE"
      [] r.tag = "OtherErr" /\ r.failure.kind = "FailedToCreateTempDir"
            -> "TEMP_DIR_FAILURE"
      [] OTHER -> "NONE"

SpecOutcomes ==
    {"SUCCESS", "FILE_IO_FAILURE", "BUILD_SPAWN_FAILURE", "BUILD_FAILURE",
     "RUN_SPAWN_FAILURE", "RUN_FAILURE"}

\* the terminal state that the last step taken leads to
OutcomeOfStep(ev) ==
    CASE ev.op = "TempDir::new" -> "TEMP_DIR_FAILURE"
      [] ev.op \in {"File::create", "write!", "sync_all"} -> "FILE_IO_FAILURE"
      [] ev.op = "rustc.spawn" -> "BUILD_SPAWN_FAILURE"
      [] ev.op = "rustc.wait" -> "BUILD_FAILURE"
      [] ev.op = "prog.spawn" -> "RUN_SPAWN_FAILURE"
      [] ev.op = "prog.wait" ->
            IF ev.res = "success" THEN "SUCCESS" ELSE "RUN_FAILURE"

\* C6 as stated: every call ends in one of the six terminal states of the
\* state machine, and the first step that can fail is materializing the source
\* file (so creating the workspace never fails).
C6_SixOutcomes ==
    \A p \in Calls :
        Returned(p) => /\ Outcome(ret[p]) \in SpecOutcomes
                       /\ HasEvent(p, "TempDir::new", "ok")

\* C6, amended: every call ends in exactly one of seven terminal states, the six
\* of the state machine and the failure to create the workspace directory,
\* which is the first step that can fail; the state is the one of the step
\* that ended the call, and a call that has not ended has no outcome.
C6_SevenOutcomes ==
    \A p \in Calls :
        /\ (pc[p] \in {"drop", "done"}) <=> (ret[p] # None)
        /\ ret[p] # None =>
              /\ Outcome(ret[p]) \in SpecOutcomes \cup {"TEMP_DIR_FAILURE"}
              /\ Outcome(ret[p]) = OutcomeOfStep(LastEvent(p))
              /\ Outcome(ret[p]) = "TEMP_DIR_FAILURE" <=> Len(hist[p]) = 1

\* one call ended by the failure to create its workspace, one by a failed
\* flush of the source file
C6_Witness ==
    \E p, q \in Calls :
        /\ Returned(p)
        /\ Outcome(ret[p]) = "TEMP_DIR_FAILURE"
        /\ Returned(q)
        /\ LastEvent(q).op = "sync_all"
        /\ Outcome(ret[q]) = "FILE_IO_FAILURE"

\* C7: a process that cannot be spawned is reported as OtherErr with the
\* variant of its own stage, never as BuildFailed or ProgExitedWithErr; the
\* system error is the end of the cause chain; BuildFailed and
\* ProgExitedWithErr have no cause.
C7_SpawnFailureIsInfrastructure ==
    \A p \in Calls :
        /\ \A e \in IoErrors :
              /\ HasEvent(p, "rustc.spawn", e) =>
                    /\ ret[p].tag = "OtherErr"
                    /\ ret[p].failure.kind = "FailedToSpawnRustc"
                    /\ Len(CauseChain(ret[p])) > 0
                    /\ CauseChain(ret[p])[Len(CauseChain(ret[p]))] = e
              /\ HasEvent(p, "prog.spawn", e) =>
                    /\ ret[p].tag = "OtherErr"
                    /\ ret[p].failure.kind = "FailedToSpawnProg"
                    /\ Len(CauseChain(ret[p])) > 0
                    /\ CauseChain(ret[p])[Len(CauseChain(ret[p]))] = e
        /\ ret[p].tag \in {"BuildFailed", "ProgExitedWithErr"}
              => /\ EvalErrorCause(ret[p]) = None
                 /\ CauseChain(ret[p]) = << >>

\* one call that could not spawn rustc, one that could not spawn the program
C7_Witness ==
    \E p, q \in Calls :
        /\ Returned(p)
        /\ HasEvent(p, "rustc.spawn", "NotFound")
        /\ Returned(q)
        /\ HasEvent(q, "prog.spawn", "PermissionDenied")

\* the call holds a TempDir
HoldsTemp(p) == pc[p] \notin {"temp_dir", "done"}
IsPrefix(s, t) == Len(s) <= Len(t) /\ s = SubSeq(t, 1, Len(s))

\* C8: concurrent calls do not interfere: each call that holds a workspace
\* holds its own existing directory, distinct from every other call's; a
\* directory holds only what its owner wrote from its own code; rustc reads
\* the full source of the call that spawned it, and the program a call runs is
\* the executable built from that call's code.
C8_Isolation ==
    /\ \A p \in Calls :
          /\ HoldsTemp(p) =>
                /\ fs[temp[p]].exists
                /\ fs[temp[p]].owner = p
                /\ \A q \in Calls \ {p} : HoldsTemp(q) => temp[q] # temp[p]
          /\ (child[p].exe = "rustc" /\ child[p].state = "exited") =>
                child[p].input =
                    [text |-> Template(code[p]), synced |-> TRUE, by |-> p]
          /\ child[p].exe = "main" =>
                child[p].input = [from |-> Template(code[p]), by |-> p]
    /\ \A d \in DirNames :
          fs[d].exists =>
             LET o == fs[d].owner
             IN /\ o \in Calls
                /\ HoldsTemp(o)
                /\ temp[o] = d
                /\ fs[d].src # None =>
                      /\ fs[d].src.by = o
                      /\ IsPrefix(fs[d].src.text, Template(code[o]))
                /\ fs[d].exe # None =>
                      fs[d].exe = [from |-> Template(code[o]), by |-> o]

\* two calls with different code both running their built program
C8_Witness ==
    \E p, q \in Calls :
        /\ code[p] # code[q]
        /\ child[p].exe = "main" /\ child[p].state = "running"
        /\ child[q].exe = "main" /\ child[q].state = "running"

\* C9 as stated: the message shown for BuildFailed(s) and for
\* ProgExitedWithErr(s) is s, with nothing added or removed.
C9_MessageIsText ==
    (shown # None /\ shown.op = "fmt"
        /\ self.tag \in {"BuildFailed", "ProgExitedWithErr"})
    => shown.value = self.text

\* C9, amended: the message shown for BuildFailed(s) and for
\* ProgExitedWithErr(s) is the variant's description ("Build failed",
\* "Program exited with error"), a newline, and then exactly s.
C9_MessageIsDescriptionThenText ==
    (shown # None /\ shown.op = "fmt"
        /\ self.tag \in {"BuildFailed", "ProgExitedWithErr"})
    => LET m == shown.value
           d == IF self.tag = "BuildFailed" THEN StrBuildFailed
                                            ELSE StrProgExited
       IN /\ Len(m) = Len(d) + 1 + Len(self.text)
          /\ SubSeq(m, 1, Len(d)) = d
          /\ m[Len(d) + 1] = "\n"
          /\ SubSeq(m, Len(d) + 2, Len(m)) = self.text

\* a multi-line build failure, formatted
C9_Witness ==
    /\ shown # None
    /\ shown.op = "fmt"
    /\ self = BuildFailed(<<"a", "\n", "U+FFFD">>)

\* the call is blocked in output() on a child that never exits
Hung(p) == child[p].state = "running" /\ child[p].hangs

\* C10: there is no timeout: a call whose child never exits stays where it is,
\* returns nothing and spawns nothing further; every other call eventually
\* returns, so that in the end each call has returned or is blocked for good.
C10_BlocksUntilChildExits ==
    /\ <>[](\A p \in Calls : Returned(p) \/ Hung(p))
    /\ [][\A p \in Calls :
            Hung(p) => /\ pc'[p] = pc[p]
                       /\ child'[p] = child[p]
                       /\ ret'[p] = None
                       /\ hist'[p] = hist[p]]_vars

\* one call blocked on a hanging program while the other has returned
C10_Witness ==
    \E p, q \in Calls :
        /\ Hung(p)
        /\ pc[p] = "wait_prog"
        /\ Returned(q)
        /\ ret[q].tag = "Ok"

====
